---- MODULE Spec2Model ----
(***************************************************************************)
(* A model of deep_qa's training harness, deep_qa/training/trainer.py:     *)
(* the constructor of Trainer, train() with its patient early stopping,    *)
(* the debug model (_build_debug_model, _debug, _output_debug_info) and    *)
(* the checkpoint files (_save_model, _save_best_model).                   *)
(*                                                                         *)
(* Python values.  An optional value is a tuple: None is << >> and a       *)
(* present value v is <<v>>.  A path is the sequence of its components     *)
(* ("out/model" is <<"out", "model">>), so that os.path.dirname is         *)
(* computed and not assumed.  A file name is the tuple of the pieces the   *)
(* format string puts together.  The weights of the model are named by     *)
(* the index of the last epoch that was fitted (-1: as built).             *)
(***************************************************************************)
EXTENDS Integers, Sequences, FiniteSets, TLC

(***************************************************************************)
(* Bounds of the model.                                                    *)
(***************************************************************************)
MaxEpochs == 3
MaxPatience == 2
MaxNames == 2
DatasetSize == 2

None == << >>
Some(v) == <<v>>
IsNone(o) == o = << >>
Options(values) == {None} \cup {Some(v) : v \in values}

\* params.pop(key, default): the value under the key if the map has it.
Pop(opt, default) == IF opt = << >> THEN default ELSE opt[1]

\* params.pop(key, None), and params.pop('debug', {}) whose default is as
\* false as None: the option itself.
PopOrNone(opt) == opt

\* History values of the validation metric, in tenths: -1 stands for a
\* negative value, 0 for 0.0, 5 for 0.5.
Metrics == {-1, 0, 3, 4, 5}

\* Exceptions are named by their class.
ConfigurationError == "ConfigurationError"
NotImplementedError == "NotImplementedError"
FileNotFoundError == "FileNotFoundError"
TypeError == "TypeError"
KeyError == "KeyError"
ValueError == "ValueError"
AttributeError == "AttributeError"
NoError == "none"

(***************************************************************************)
(* Paths and file names.                                                   *)
(***************************************************************************)
\* os.path.dirname(path): everything before the last component.
Dirname(path) == SubSeq(path, 1, Len(path) - 1)

\* os.makedirs(directory, exist_ok=True) raises FileNotFoundError on ''.
MakedirsRaises(directory) == directory = << >>

\* "%s" % model_prefix: None is formatted as the string None.
FormatS(prefix) == IF IsNone(prefix) THEN <<"None">> ELSE prefix[1]

ConfigFile(prefix) == <<FormatS(prefix), "_config.json">>
EpochWeightFile(prefix, epoch) == <<FormatS(prefix), "_weights_epoch=", epoch, ".h5">>
FinalWeightFile(prefix) == <<FormatS(prefix), "_weights.h5">>

\* The content of a file.  fresh: written by the train() call under way.
\* A topology file holds the layers of the model, a weight file its weights.
Topology(layers) == [kind |-> "config", fresh |-> TRUE, w |-> 0, layers |-> layers]
Weights(w) == [kind |-> "weights", fresh |-> TRUE, w |-> w, layers |-> << >>]
\* What is known, in a later train() call, of a file an earlier one left.
Stale(content) == [kind |-> content.kind, fresh |-> FALSE, w |-> 0, layers |-> << >>]

Exists(files, name) == name \in DOMAIN files
WriteFile(files, name, content) ==
    [n \in DOMAIN files \cup {name} |-> IF n = name THEN content ELSE files[n]]

VARIABLES
    pc,                \* where the caller is: in the constructor's result or in train()
    params,            \* the parameter map the constructor was given
    error,             \* the class of the exception that ended the call
    self,              \* the fields of the Trainer
    hooks,             \* what the subclass supplies
    best_accuracy,     \* locals of train()
    num_worse_epochs,
    epoch_id,
    history,           \* history.history[validation_metric] of the last fit
    accuracies,        \* the metric train() read in each epoch so far
    output_dict,       \* what _debug last handed to _output_debug_info
    fs,                \* the files on disk
    calls,             \* the calls train() has made, in order
    read               \* the files load_model opened, in order

vars == <<pc, params, error, self, hooks, best_accuracy, num_worse_epochs, epoch_id,
          history, accuracies, output_dict, fs, calls, read>>

(***************************************************************************)
(* Datasets and prepared tensors.  A dataset is the sequence of its        *)
(* instances; the tensors prepared from it have one row per instance.      *)
(***************************************************************************)
\* The number of instances a list of files holds.
Instances(files) ==
    IF files = <<"ten.tsv">> THEN 10
    ELSE IF files = <<"empty.tsv">> THEN 0
    ELSE DatasetSize

\* What a subclass's _load_dataset_from_files returns for a list of files.
LoadedDataset(files) == [i \in 1 .. Instances(files) |-> <<files, i>>]

\* Dataset.truncate(max_instances): the first max_instances instances.
Truncate(dataset, max_instances) ==
    SubSeq(dataset, 1, IF max_instances < Len(dataset) THEN max_instances ELSE Len(dataset))

\* The training dataset left as it was loaded.
TrainingDatasetUntruncated(loaded, max_training_instances) == loaded

\* Lines 223-226: the training dataset, truncated if a limit is set.
TrainingDataset(loaded, max_training_instances) ==
    IF ~IsNone(max_training_instances)
    THEN Truncate(loaded, max_training_instances[1])
    ELSE loaded

\* What a subclass's _prepare_data returns: (inputs, labels).
PrepareData(dataset, for_train) ==
    [inputs |-> Some([rows |-> dataset, for_train |-> for_train]),
     labels |-> Some([rows |-> dataset, for_train |-> for_train])]

\* The exceptions a subclass's loader may end with when handed None.
LoadNoneErrors == {TypeError, ConfigurationError}

(***************************************************************************)
(* The constructor.  A parameter map is a record of options, << >> for a   *)
(* key the map does not hold, and the set of its unrecognized keys.        *)
(***************************************************************************)
Truthy(prefix) == ~IsNone(prefix) /\ prefix[1] # << >>

\* The exception __init__ ends with, NoError when it returns.
InitError(given) ==
    LET model_prefix == PopOrNone(given.model_serialization_prefix) IN
    IF Truthy(model_prefix) /\ MakedirsRaises(Dirname(model_prefix[1]))
    THEN FileNotFoundError
    ELSE IF given.unrecognized # {}
    THEN ConfigurationError
    ELSE NoError

\* The fields __init__ sets.
InitFields(given) ==
    [save_models |-> Pop(given.save_models, TRUE),
     model_prefix |-> PopOrNone(given.model_serialization_prefix),
     max_training_instances |-> PopOrNone(given.max_training_instances),
     keras_validation_split |-> Pop(given.keras_validation_split, 1),
     num_epochs |-> Pop(given.num_epochs, 20),
     patience |-> Pop(given.patience, 1),
     train_files |-> PopOrNone(given.train_files),
     validation_files |-> PopOrNone(given.validation_files),
     debug_params |-> PopOrNone(given.debug),
     pretrainers |-> Pop(given.pretrainers, << >>),
     model |-> None,
     debug_model |-> None,
     best_epoch |-> -1,
     training_dataset |-> None,
     train_input |-> None,
     train_labels |-> None,
     validation_dataset |-> None,
     validation_input |-> None,
     validation_labels |-> None,
     debug_dataset |-> None,
     debug_input |-> None]

\* No Trainer: before the first construction and after a failed one.
NoParams == [save_models |-> None, model_serialization_prefix |-> None,
             max_training_instances |-> None, keras_validation_split |-> None,
             num_epochs |-> None, patience |-> None, train_files |-> None,
             validation_files |-> None, debug |-> None, pretrainers |-> None,
             unrecognized |-> {}]
NoTrainer == InitFields(NoParams)

\* What a subclass supplies: whether it implements the abstract methods and
\* _instance_debug_output, the layers of the model it builds, whether the
\* inputs it prepares are one array or a list of arrays, and whether its
\* _post_epoch_hook gives the validation metric a new latest value.
NoHooks == [implemented |-> FALSE, instance_debug |-> FALSE, layers |-> << >>,
            tensors |-> "list", rewrites |-> FALSE]
EmptyDict == [k \in {} |-> 0]
NoOutputDict == [layers |-> EmptyDict, masks |-> EmptyDict, has_masks |-> FALSE]

Init ==
    /\ pc = "start"
    /\ params = NoParams
    /\ error = NoError
    /\ self = NoTrainer
    /\ hooks = NoHooks
    /\ best_accuracy = 0
    /\ num_worse_epochs = 0
    /\ epoch_id = 0
    /\ history = << >>
    /\ accuracies = << >>
    /\ output_dict = NoOutputDict
    /\ fs = EmptyDict
    /\ calls = << >>
    /\ read = << >>

\* Trainer(params) of a subclass whose methods are `subclass`.
Construct(given, subclass) ==
    /\ pc = "start"
    /\ params' = given
    /\ pc' = IF InitError(given) = NoError THEN "constructed" ELSE "init_failed"
    /\ error' = InitError(given)
    /\ self' = IF InitError(given) = NoError THEN InitFields(given) ELSE NoTrainer
    /\ hooks' = IF InitError(given) = NoError THEN subclass ELSE NoHooks
    /\ UNCHANGED <<best_accuracy, num_worse_epochs, epoch_id, history, accuracies,
                   output_dict, fs, calls, read>>

\* The call has returned or raised and the Trainer is dropped.  The files
\* it wrote stay on disk for the Trainers that come after it.
Discard ==
    /\ pc \in {"init_failed", "done", "loaded", "failed"}
    /\ pc' = "start"
    /\ params' = NoParams
    /\ error' = NoError
    /\ self' = NoTrainer
    /\ hooks' = NoHooks
    /\ best_accuracy' = 0
    /\ num_worse_epochs' = 0
    /\ epoch_id' = 0
    /\ history' = << >>
    /\ accuracies' = << >>
    /\ output_dict' = NoOutputDict
    /\ fs' = [n \in DOMAIN fs |-> Stale(fs[n])]
    /\ calls' = << >>
    /\ read' = << >>

(***************************************************************************)
(* The debug model.  A tensor is named by the layer it comes from and by   *)
(* whether it is the layer's output or the mask of that output.            *)
(***************************************************************************)
LayerOutput(name) == [kind |-> "output", layer |-> name]
OutputMask(name) == [kind |-> "mask", layer |-> name]

Range(seq) == {seq[i] : i \in 1 .. Len(seq)}
Put(dict, key, value) ==
    [k \in DOMAIN dict \cup {key} |-> IF k = key THEN value ELSE dict[k]]

\* The key under which _build_debug_model keeps the mask of a layer.
MaskKey(name) == "mask_for_" \o name

\* The loop over self.model.layers of _build_debug_model, from layer i on.
RECURSIVE ScanLayers(_, _, _)
ScanLayers(layers, i, st) ==
    IF i > Len(layers) THEN st
    ELSE LET name == layers[i]
             s1 == IF name \in st.layer_names
                   THEN [st EXCEPT !.debug_output_dict = Put(@, name, LayerOutput(name)),
                                   !.layer_names = @ \ {name}]
                   ELSE st
             s2 == IF name \in s1.mask_names
                   THEN [s1 EXCEPT !.debug_output_dict = Put(@, MaskKey(name), OutputMask(name)),
                                   !.mask_names = @ \ {name}]
                   ELSE s1
         IN ScanLayers(layers, i + 1, s2)

\* The exception the raise statement for unmatched names ends with: its
\* message is built first, and layer_names + mask_names adds two sets,
\* which Python answers with a TypeError.
UnmatchedNamesError == TypeError

\* _build_debug_model: the exception it ends with and the outputs of the
\* model it returns.
BuildDebugModel(layers, debug_layer_names, debug_masks) ==
    LET st == ScanLayers(layers, 1, [debug_output_dict |-> EmptyDict,
                                     layer_names |-> Range(debug_layer_names),
                                     mask_names |-> Range(debug_masks)])
    IN IF st.layer_names # {} \/ st.mask_names # {}
       THEN [raised |-> UnmatchedNamesError, outputs |-> << >>]
       ELSE [raised |-> NoError,
             outputs |-> [i \in 1 .. Len(debug_layer_names) |->
                              st.debug_output_dict[debug_layer_names[i]]]
                         \o [i \in 1 .. Len(debug_masks) |->
                              st.debug_output_dict[MaskKey(debug_masks[i])]]]

\* Python values _debug handles: one tensor, a list of tensors, or one row
\* of a tensor (what indexing or iterating over a tensor gives).
PyTensor(t) == [shape |-> "tensor", items |-> <<t>>, row |-> 0]
PyList(ts) == [shape |-> "list", items |-> ts, row |-> 0]
PyRow(t, i) == [shape |-> "row", items |-> <<t>>, row |-> i]

\* Model.predict: one array for a model of one output, else a list of them.
Predict(outputs) == IF Len(outputs) = 1 THEN PyTensor(outputs[1]) ELSE PyList(outputs)

Min(a, b) == IF a < b THEN a ELSE b

\* What iterating over value[from:to] gives, `rows` being the batch size.
Slice(value, from, to, rows) ==
    IF value.shape = "list"
    THEN [i \in 1 .. (Min(to, Len(value.items)) - Min(from, Len(value.items))) |->
              PyTensor(value.items[Min(from, Len(value.items)) + i])]
    ELSE [i \in 1 .. (Min(to, rows) - Min(from, rows)) |->
              PyRow(value.items[1], Min(from, rows) + i - 1)]

\* for key, value in zip(keys, values): dict[key] = value
RECURSIVE ZipInto(_, _, _, _)
ZipInto(dict, keys, values, i) ==
    IF i > Len(keys) \/ i > Len(values) THEN dict
    ELSE ZipInto(Put(dict, keys[i], values[i]), keys, values, i + 1)

\* The output_dict _debug builds from what the debug model predicts.
DebugOutputDict(outputs, debug_layer_names, debug_masks, rows) ==
    LET n == Len(debug_layer_names)
        top == n + Len(debug_masks) + rows
        mask_values == Slice(outputs, n, top, rows)
    IN [layers |-> IF n = 1
                   THEN Put(EmptyDict, debug_layer_names[1], outputs)
                   ELSE ZipInto(EmptyDict, debug_layer_names, Slice(outputs, 0, n, rows), 1),
        masks |-> ZipInto(EmptyDict, debug_masks, mask_values, 1),
        has_masks |-> Len(debug_masks) > 0 /\ Len(mask_values) > 0]

\* The exception _output_debug_info ends with.  For each instance it indexes
\* every value of output_dict by the instance's number, the nested masks
\* mapping included, and adds a newline to what _instance_debug_output
\* returns, None unless the subclass overrides it.
OutputDebugInfoError(dict, instances, instance_debug) ==
    IF Len(instances) = 0 THEN NoError
    ELSE IF dict.has_masks THEN KeyError
    ELSE IF ~instance_debug THEN TypeError
    ELSE NoError

(***************************************************************************)
(* train().  Each action is one stretch of the method between two of the   *)
(* points where a claim observes it; pc names the point reached.           *)
(***************************************************************************)
Call(name, number, argument) == <<name, number, argument>>

Fail(kind) == pc' = "failed" /\ error' = kind

\* Lines 218-232: the pretraining-data hook, the training dataset, its
\* truncation, the training tensors and the validation dataset and tensors.
TrainPrepare ==
    /\ pc = "constructed"
    /\ LET hook == IF self.pretrainers # << >>
                   THEN <<Call("_process_pretraining_data", -1, "")>> ELSE << >>
           raised == IF ~hooks.implemented THEN {NotImplementedError}
                     ELSE IF IsNone(self.train_files) THEN LoadNoneErrors
                     ELSE {NoError}
           loaded == LoadedDataset(Pop(self.train_files, << >>))
           training_dataset == TrainingDataset(loaded, self.max_training_instances)
           train == PrepareData(training_dataset, TRUE)
           validation_dataset == LoadedDataset(Pop(self.validation_files, << >>))
           validation == PrepareData(validation_dataset, FALSE)
           load == <<Call("_load_dataset_from_files", -1, "train_files")>>
           truncate == IF ~IsNone(self.max_training_instances)
                       THEN <<Call("truncate", self.max_training_instances[1], "")>>
                       ELSE << >>
           prepare == <<Call("_prepare_data", -1, "training_dataset")>>
           validate == IF Truthy(self.validation_files)
                       THEN <<Call("_load_dataset_from_files", -1, "validation_files"),
                              Call("_prepare_data", -1, "validation_dataset")>>
                       ELSE << >>
       IN \E kind \in raised :
            /\ IF kind # NoError
               THEN Fail(kind) /\ UNCHANGED self /\ calls' = calls \o hook \o load
               ELSE /\ pc' = "prepared"
                    /\ calls' = calls \o hook \o load \o truncate \o prepare \o validate
                    /\ error' = NoError
                    /\ self' = IF Truthy(self.validation_files)
                               THEN [self EXCEPT !.training_dataset = Some(training_dataset),
                                                 !.train_input = train.inputs,
                                                 !.train_labels = train.labels,
                                                 !.validation_dataset = Some(validation_dataset),
                                                 !.validation_input = validation.inputs,
                                                 !.validation_labels = validation.labels]
                               ELSE [self EXCEPT !.training_dataset = Some(training_dataset),
                                                 !.train_input = train.inputs,
                                                 !.train_labels = train.labels]
    /\ UNCHANGED <<read, params, hooks, best_accuracy, num_worse_epochs, epoch_id, history,
                   accuracies, output_dict, fs>>

\* Each pretrainer finished as soon as it has trained.
PretrainCallsInterleaved(pretrainers) ==
    [i \in 1 .. 2 * Len(pretrainers) |->
        IF i % 2 = 1 THEN Call("pretrainer.train", (i + 1) \div 2, pretrainers[(i + 1) \div 2])
        ELSE Call("pretrainer.on_finished", i \div 2, pretrainers[i \div 2])]

\* _pretrain: every pretrainer's train(), then _pretraining_finished_hook.
PretrainCalls(pretrainers) ==
    [i \in 1 .. Len(pretrainers) |-> Call("pretrainer.train", i, pretrainers[i])]
    \o [i \in 1 .. Len(pretrainers) |-> Call("pretrainer.on_finished", i, pretrainers[i])]

\* Lines 237-244: pretraining, then the model is built and compiled.
TrainBuild ==
    /\ pc = "prepared"
    /\ pc' = "built"
    /\ calls' = calls \o (IF self.pretrainers # << >> THEN PretrainCalls(self.pretrainers)
                          ELSE << >>)
                      \o <<Call("_build_model", -1, "")>>
    /\ self' = [self EXCEPT !.model = Some([layers |-> hooks.layers, weights |-> -1])]
    /\ UNCHANGED <<read, params, error, hooks, best_accuracy, num_worse_epochs, epoch_id, history,
                   accuracies, output_dict, fs>>

\* Lines 252-264: the dataset and input the debug model is run on.
DebugData(trainer, debug_data) ==
    IF debug_data = "training"
    THEN [dataset |-> trainer.training_dataset, input |-> trainer.train_input]
    ELSE IF debug_data = "validation"
    THEN [dataset |-> trainer.validation_dataset, input |-> trainer.validation_input]
    ELSE [dataset |-> Some(LoadedDataset(<<debug_data>>)),
          input |-> PrepareData(LoadedDataset(<<debug_data>>), FALSE).inputs]

\* Lines 246-272: the debug data and the debug model, if any, then the
\* variables of the epoch loop.
TrainDebugSetup ==
    /\ pc = "built"
    /\ LET debug == self.debug_params
           built == BuildDebugModel(self.model[1].layers, debug[1].layer_names,
                                    Pop(debug[1].masks, << >>))
           data == DebugData(self, debug[1].data)
       IN IF ~IsNone(debug) /\ built.raised # NoError
          THEN /\ Fail(built.raised)
               /\ self' = [self EXCEPT !.debug_dataset = data.dataset,
                                       !.debug_input = data.input]
               /\ calls' = Append(calls, Call("_build_debug_model", -1, ""))
               /\ UNCHANGED <<best_accuracy, num_worse_epochs, epoch_id>>
          ELSE /\ pc' = "epoch"
               /\ self' = IF IsNone(debug) THEN [self EXCEPT !.best_epoch = 0]
                          ELSE [self EXCEPT !.debug_dataset = data.dataset,
                                            !.debug_input = data.input,
                                            !.debug_model = Some(built.outputs),
                                            !.best_epoch = 0]
               /\ calls' = IF IsNone(debug) THEN calls
                           ELSE Append(calls, Call("_build_debug_model", -1, ""))
               /\ best_accuracy' = 0
               /\ num_worse_epochs' = 0
               /\ epoch_id' = 0
               /\ UNCHANGED error
    /\ UNCHANGED <<read, params, hooks, history, accuracies, output_dict, fs>>

\* A range that takes num_epochs itself for an index.
InRangeInclusive(epoch, num_epochs) == epoch <= num_epochs

\* Line 273: range(num_epochs) has the index.
InRange(epoch, num_epochs) == epoch < num_epochs

\* Lines 273-274: the loop takes the next index of range(num_epochs), which
\* epoch_id holds, and calls the pre-epoch hook, or ends.
EpochBegin ==
    /\ pc = "epoch"
    /\ IF InRange(epoch_id, self.num_epochs)
       THEN /\ pc' = "fit"
            /\ calls' = Append(calls, Call("_pre_epoch_hook", epoch_id, ""))
       ELSE /\ pc' = "after_loop"
            /\ UNCHANGED calls
    /\ UNCHANGED <<read, params, error, self, hooks, best_accuracy, num_worse_epochs, epoch_id,
                   history, accuracies, output_dict, fs>>

\* The truth Python gives prepared inputs in a condition.  None is false.
\* A list of arrays, one for each input of the model, is true.  One numpy
\* array is false when it is empty and has no truth when it holds more than
\* one number: testing it raises ValueError.
InputTruth(input, tensors) ==
    IF IsNone(input) THEN "false"
    ELSE IF tensors = "list" THEN "true"
    ELSE IF Len(input[1].rows) = 0 THEN "false"
    ELSE ValueError

\* Lines 280-283: the validation argument of the fit call.
FitKwargs(trainer, tensors) ==
    IF InputTruth(trainer.validation_input, tensors) = "true" THEN "validation_data"
    ELSE IF trainer.keras_validation_split > 0 THEN "validation_split"
    ELSE "none"

\* Lines 276-284: one epoch of fitting; the engine answers with a history.
Fit ==
    /\ pc = "fit"
    /\ IF InputTruth(self.validation_input, hooks.tensors) = ValueError
       THEN Fail(ValueError) /\ UNCHANGED <<history, self, calls>>
       ELSE /\ pc' = "fitted"
            /\ \E metric \in Metrics : history' = <<metric>>
            /\ self' = [self EXCEPT !.model = Some([@[1] EXCEPT !.weights = epoch_id])]
            /\ calls' = Append(calls, Call("fit", epoch_id, FitKwargs(self, hooks.tensors)))
            /\ UNCHANGED error
    /\ UNCHANGED <<read, params, hooks, best_accuracy, num_worse_epochs, epoch_id,
                   accuracies, output_dict, fs>>

\* What _post_epoch_hook may leave of the metric's values: Trainer's own
\* hook leaves them as they are, a subclass's may add a new latest value.
HookedHistories(values, rewrites) ==
    IF rewrites THEN {Append(values, value) : value \in Metrics} ELSE {values}

\* The value the fit call gave the metric.
MetricOfFit(values) == values[1]

\* Line 286: history.history[self.validation_metric][-1].
MetricOf(values) == values[Len(values)]

\* Lines 285-286: the post-epoch hook, then the metric's latest value.
PostEpoch ==
    /\ pc = "fitted"
    /\ pc' = "decide"
    /\ calls' = Append(calls, Call("_post_epoch_hook", epoch_id, ""))
    /\ \E hooked \in HookedHistories(history, hooks.rewrites) :
          /\ history' = hooked
          /\ accuracies' = Append(accuracies, MetricOf(hooked))
    /\ UNCHANGED <<read, params, error, self, hooks, best_accuracy, num_worse_epochs, epoch_id,
                   output_dict, fs>>

\* A tie taken for a worse epoch.
IsWorseOrEqual(accuracy, best) == accuracy <= best

\* Line 287: the epoch is worse than the best so far.
IsWorse(accuracy, best) == accuracy < best

\* One worse epoch too many before stopping.
OutOfPatienceLate(worse_epochs, patience) == worse_epochs > patience

\* Line 289: the worse epochs have used up the patience.
OutOfPatience(worse_epochs, patience) == worse_epochs >= patience

\* A checkpoint of the topology alone.
SaveModelTopologyOnly(files, trainer, epoch) ==
    WriteFile(files, ConfigFile(trainer.model_prefix), Topology(trainer.model[1].layers))

\* _save_model(epoch): the topology, then the weights of the model as it is.
SaveModel(files, trainer, epoch) ==
    WriteFile(WriteFile(files, ConfigFile(trainer.model_prefix), Topology(trainer.model[1].layers)),
              EpochWeightFile(trainer.model_prefix, epoch),
              Weights(trainer.model[1].weights))

\* A checkpoint of every improvement, wanted or not.
SavesCheckpointAlways(trainer) == TRUE

\* Line 296: whether an improvement is checkpointed.
SavesCheckpoint(trainer) == trainer.save_models

\* Lines 287-297: the early-stopping decision and the epoch's checkpoint.
Decide ==
    /\ pc = "decide"
    /\ LET accuracy == accuracies[Len(accuracies)] IN
       IF IsWorse(accuracy, best_accuracy)
       THEN /\ num_worse_epochs' = num_worse_epochs + 1
            /\ IF OutOfPatience(num_worse_epochs + 1, self.patience)
               THEN /\ pc' = "after_loop"
                    /\ calls' = Append(calls, Call("break", epoch_id, ""))
               ELSE /\ pc' = "debug"
                    /\ UNCHANGED calls
            /\ UNCHANGED <<best_accuracy, self, fs>>
       ELSE /\ best_accuracy' = accuracy
            /\ self' = [self EXCEPT !.best_epoch = epoch_id]
            /\ num_worse_epochs' = 0
            /\ IF SavesCheckpoint(self)
               THEN /\ fs' = SaveModel(fs, self, epoch_id)
                    /\ calls' = Append(calls, Call("_save_model", epoch_id, ""))
               ELSE UNCHANGED <<fs, calls>>
            /\ pc' = "debug"
    /\ UNCHANGED <<read, params, error, hooks, epoch_id, history, accuracies, output_dict>>

\* Debug output only for the epochs that improved.
RunsDebugOnImprovement(trainer, epoch) ==
    ~IsNone(trainer.debug_params) /\ trainer.best_epoch = epoch

\* Line 298: whether the epoch that reaches it gets its debug output.
RunsDebug(trainer, epoch) == ~IsNone(trainer.debug_params)

\* The exceptions predict may end with when handed None for its input.
PredictNoneErrors == {TypeError, ValueError, AttributeError}

\* Lines 298-299 with _debug and _output_debug_info; then the next index.
Debug ==
    /\ pc = "debug"
    /\ LET debug == self.debug_params
           instances == Pop(self.debug_dataset, << >>)
           dict == DebugOutputDict(Predict(self.debug_model[1]), debug[1].layer_names,
                                   Pop(debug[1].masks, << >>), Len(instances))
           raised == OutputDebugInfoError(dict, instances, hooks.instance_debug)
       IN IF ~RunsDebug(self, epoch_id)
          THEN /\ pc' = "epoch"
               /\ epoch_id' = epoch_id + 1
               /\ UNCHANGED <<error, output_dict, calls>>
          ELSE IF IsNone(self.debug_input)
          THEN /\ calls' = Append(calls, Call("_debug", epoch_id, ""))
               /\ \E kind \in PredictNoneErrors : Fail(kind)
               /\ UNCHANGED <<epoch_id, output_dict>>
          ELSE /\ output_dict' = dict
               /\ calls' = calls \o <<Call("_debug", epoch_id, ""),
                                      Call("_output_debug_info", epoch_id, raised)>>
               /\ IF raised # NoError
                  THEN Fail(raised) /\ UNCHANGED epoch_id
                  ELSE pc' = "epoch" /\ epoch_id' = epoch_id + 1 /\ UNCHANGED error
    /\ UNCHANGED <<read, params, self, hooks, best_accuracy, num_worse_epochs, history, accuracies, fs>>

\* _save_best_model: copyfile raises FileNotFoundError without the source.
SaveBestModelError(files, trainer) ==
    IF Exists(files, EpochWeightFile(trainer.model_prefix, trainer.best_epoch))
    THEN NoError ELSE FileNotFoundError

SaveBestModel(files, trainer) ==
    WriteFile(files, FinalWeightFile(trainer.model_prefix),
              files[EpochWeightFile(trainer.model_prefix, trainer.best_epoch)])

\* Lines 300-301: after the loop, the best epoch's weights become the final ones.
Finish ==
    /\ pc = "after_loop"
    /\ IF ~self.save_models
       THEN pc' = "done" /\ UNCHANGED <<error, fs, calls>>
       ELSE /\ calls' = Append(calls, Call("_save_best_model", self.best_epoch, ""))
            /\ IF SaveBestModelError(fs, self) # NoError
               THEN Fail(SaveBestModelError(fs, self)) /\ UNCHANGED fs
               ELSE pc' = "done" /\ fs' = SaveBestModel(fs, self) /\ UNCHANGED error
    /\ UNCHANGED <<read, params, self, hooks, best_accuracy, num_worse_epochs, epoch_id, history,
                   accuracies, output_dict>>

(***************************************************************************)
(* load_model, on the Trainer whose train() has returned.                  *)
(***************************************************************************)
\* Line 425: the topology file load_model opens.
LoadConfigFile(prefix) == <<FormatS(prefix), "_config.json">>

\* An epoch number tested for its truth, which 0 does not have.
ModelFileIfTruthy(prefix, epoch) ==
    IF ~IsNone(epoch) /\ epoch[1] # 0
    THEN <<FormatS(prefix), "_weights_epoch=", epoch[1], ".h5">>
    ELSE <<FormatS(prefix), "_weights.h5">>

\* Lines 430-433: the weight file load_model reads.
ModelFile(prefix, epoch) ==
    IF ~IsNone(epoch)
    THEN <<FormatS(prefix), "_weights_epoch=", epoch[1], ".h5">>
    ELSE <<FormatS(prefix), "_weights.h5">>

\* model_from_json, then load_weights: the model of the topology file as
\* built, then with the weights of the weight file.
LoadModel(epoch) ==
    /\ pc = "done"
    /\ calls' = Append(calls, Call("load_model", IF IsNone(epoch) THEN -1 ELSE epoch[1], ""))
    /\ LET config == LoadConfigFile(self.model_prefix)
           model_file == ModelFile(self.model_prefix, epoch)
       IN IF ~Exists(fs, config)
          THEN Fail(FileNotFoundError) /\ read' = <<config>> /\ UNCHANGED self
          ELSE /\ read' = <<config, model_file>>
               /\ IF ~Exists(fs, model_file)
                  THEN /\ Fail(FileNotFoundError)
                       /\ self' = [self EXCEPT !.model = Some([layers |-> fs[config].layers,
                                                               weights |-> -1])]
                  ELSE /\ pc' = "loaded"
                       /\ self' = [self EXCEPT !.model = Some([layers |-> fs[config].layers,
                                                               weights |-> fs[model_file].w])]
                       /\ UNCHANGED error
    /\ UNCHANGED <<params, hooks, best_accuracy, num_worse_epochs, epoch_id, history,
                   accuracies, output_dict, fs>>

\* load_model() and load_model(epoch) for the epochs there may be.
Load == \E epoch \in Options(0 .. MaxEpochs - 1) : LoadModel(epoch)

Train == TrainPrepare \/ TrainBuild \/ TrainDebugSetup \/ EpochBegin \/ Fit
         \/ PostEpoch \/ Decide \/ Debug \/ Finish

(***************************************************************************)
(* Parameter maps and subclasses.                                          *)
(***************************************************************************)
\* Sequences over `values` of at most n elements.
SeqsUpTo(values, n) == UNION {[1 .. k -> values] : k \in 0 .. n}

DebugSpec(layer_names, masks, data) ==
    [layer_names |-> layer_names, masks |-> masks, data |-> data]

\* The layers of the model of the epoch-loop specification.
TrainLayers == <<"B", "A">>

\* The parameter maps of the epoch loop: every number of epochs and every
\* patience, with and without checkpoints, training files and a debug spec
\* (one whose names resolve, one with a name no layer has, and one on the
\* validation data, of which there are none).
TrainParams ==
    [save_models : {None, Some(FALSE)},
     model_serialization_prefix : {Some(<<"out", "model">>)},
     max_training_instances : {None},
     keras_validation_split : {None},
     num_epochs : {Some(n) : n \in 0 .. MaxEpochs},
     patience : {Some(n) : n \in 0 .. MaxPatience},
     train_files : Options({<<"train.tsv">>}),
     validation_files : {None},
     debug : Options({DebugSpec(<<"A", "B">>, None, "training"),
                      DebugSpec(<<"A", "C">>, None, "training"),
                      DebugSpec(<<"A", "B">>, None, "validation")}),
     pretrainers : {None},
     unrecognized : {{}}]

\* The parameter maps of the epoch loop that write no checkpoint.
FairParams == {given \in TrainParams : given.save_models = Some(FALSE)}

TrainSubclasses ==
    {[implemented |-> TRUE, instance_debug |-> TRUE, layers |-> TrainLayers,
      tensors |-> "list", rewrites |-> FALSE],
     [implemented |-> TRUE, instance_debug |-> FALSE, layers |-> TrainLayers,
      tensors |-> "list", rewrites |-> FALSE],
     [implemented |-> FALSE, instance_debug |-> FALSE, layers |-> TrainLayers,
      tensors |-> "list", rewrites |-> FALSE]}

\* The parameter maps of the constructor: with and without a prefix, one
\* with and one without a directory, and with and without a key no
\* Trainer knows.
InitParams ==
    [save_models : Options(BOOLEAN),
     model_serialization_prefix : Options({<<"model">>, <<"out", "model">>}),
     max_training_instances : {None},
     keras_validation_split : {None},
     num_epochs : {Some(n) : n \in 0 .. 1},
     patience : {None},
     train_files : Options({<<"train.tsv">>}),
     validation_files : {None},
     debug : {None},
     pretrainers : Options({<<"encoder">>}),
     unrecognized : {{}, {"bogus"}}]

\* The names of the layers of the debug specification's models.
LayerNames == {"A", "B", "mask_for_A"}

\* The orders in which a model may hold two or all of these layers.
LayerLists ==
    {layers \in SeqsUpTo(LayerNames, Cardinality(LayerNames)) :
        /\ Len(layers) >= 2
        /\ \A i, j \in 1 .. Len(layers) : i # j => layers[i] # layers[j]}

\* The parameter maps of the debug model: every list of layer names and of
\* masks of at most MaxNames names, not both empty.
DebugParams ==
    [save_models : {Some(FALSE)},
     model_serialization_prefix : {Some(<<"out", "model">>)},
     max_training_instances : {None},
     keras_validation_split : {None},
     num_epochs : {Some(1)},
     patience : {None},
     train_files : {Some(<<"train.tsv">>)},
     validation_files : {None},
     debug : {Some(DebugSpec(names, masks, "training")) :
                  <<names, masks>> \in {nm \in SeqsUpTo(LayerNames, MaxNames)
                                               \X Options(SeqsUpTo(LayerNames, MaxNames)) :
                                            Len(nm[1]) + Len(Pop(nm[2], << >>)) > 0}},
     pretrainers : {None},
     unrecognized : {{}}]

DebugSubclasses ==
    {[implemented |-> TRUE, instance_debug |-> TRUE, layers |-> layers,
      tensors |-> "list", rewrites |-> FALSE] : layers \in LayerLists}

\* The parameter maps of the data train() prepares: training files of 2 and
\* of 10 instances, a limit below, at and above these sizes, validation
\* files that are absent, an empty list, of some instances and of none,
\* a validation split of 0.1 and of 0, no, one and two pretrainers, and a
\* debug spec for each source of debug data.
DataParams ==
    [save_models : {Some(FALSE)},
     model_serialization_prefix : {Some(<<"out", "model">>)},
     max_training_instances : Options({0, 1, 2, 5, 10, 11}),
     keras_validation_split : Options({0}),
     num_epochs : {Some(1)},
     patience : {None},
     train_files : {Some(<<"train.tsv">>), Some(<<"ten.tsv">>)},
     validation_files : Options({<< >>, <<"valid.tsv">>, <<"empty.tsv">>}),
     debug : Options({DebugSpec(<<"A">>, None, data) :
                         data \in {"training", "validation", "debug.tsv"}}),
     pretrainers : Options({<<"encoder">>, <<"encoder", "decoder">>}),
     unrecognized : {{}}]

\* Subclasses that prepare a list of arrays and one array.
DataSubclasses ==
    {[implemented |-> TRUE, instance_debug |-> TRUE, layers |-> TrainLayers,
      tensors |-> tensors, rewrites |-> FALSE] : tensors \in {"list", "array"}}

\* The parameter maps of the steps of an epoch: two epochs, with a patience
\* of 1 and of 2, with and without checkpoints and a debug spec.
HookParams ==
    [save_models : {None, Some(FALSE)},
     model_serialization_prefix : {Some(<<"out", "model">>)},
     max_training_instances : {None},
     keras_validation_split : {None},
     num_epochs : {Some(2)},
     patience : {Some(1), Some(2)},
     train_files : {Some(<<"train.tsv">>)},
     validation_files : {None},
     debug : Options({DebugSpec(<<"A", "B">>, None, "training")}),
     pretrainers : {None},
     unrecognized : {{}}]

\* Subclasses whose _post_epoch_hook leaves and rewrites the metric.
HookSubclasses ==
    {[implemented |-> TRUE, instance_debug |-> TRUE, layers |-> TrainLayers,
      tensors |-> "list", rewrites |-> rewrites] : rewrites \in BOOLEAN}

(***************************************************************************)
(* The specifications: the same Trainer over sets of parameter maps.       *)
(***************************************************************************)
\* A subclass without _instance_debug_output differs from one with it only
\* under a debug spec.
NewTrainer ==
    /\ pc = "start"
    /\ \E given \in TrainParams, subclass \in TrainSubclasses :
          /\ ~IsNone(given.debug) \/ subclass.instance_debug \/ ~subclass.implemented
          /\ Construct(given, subclass)
Next == NewTrainer \/ Train \/ Load \/ Discard
Spec == Init /\ [][Next]_vars

\* The epoch loop for every number of epochs and every patience, without
\* checkpoints.  train() is one sequential call: when it has a next
\* statement, it runs it.
NewTrainerFair ==
    /\ pc = "start"
    /\ \E given \in FairParams, subclass \in TrainSubclasses :
          /\ ~IsNone(given.debug) \/ subclass.instance_debug \/ ~subclass.implemented
          /\ Construct(given, subclass)
NextFair == NewTrainerFair \/ Train \/ Load \/ Discard
SpecFair == Init /\ [][NextFair]_vars /\ WF_vars(Train)

NewTrainerInit ==
    /\ pc = "start"
    /\ \E given \in InitParams, subclass \in TrainSubclasses : Construct(given, subclass)
NextInit == NewTrainerInit \/ Train \/ Load \/ Discard
SpecInit == Init /\ [][NextInit]_vars

NewTrainerData ==
    /\ pc = "start"
    /\ \E given \in DataParams, subclass \in DataSubclasses : Construct(given, subclass)
NextData == NewTrainerData \/ Train \/ Load \/ Discard
SpecData == Init /\ [][NextData]_vars

NewTrainerHook ==
    /\ pc = "start"
    /\ \E given \in HookParams, subclass \in HookSubclasses : Construct(given, subclass)
NextHook == NewTrainerHook \/ Train \/ Load \/ Discard
SpecHook == Init /\ [][NextHook]_vars

NewTrainerDebug ==
    /\ pc = "start"
    /\ \E given \in DebugParams, subclass \in DebugSubclasses : Construct(given, subclass)
NextDebug == NewTrainerDebug \/ Train \/ Load \/ Discard
SpecDebug == Init /\ [][NextDebug]_vars

(***************************************************************************)
(* What the claims speak of.                                               *)
(***************************************************************************)
Called(name, number) ==
    \E i \in 1 .. Len(calls) : calls[i][1] = name /\ calls[i][2] = number
CalledAny(name) == \E i \in 1 .. Len(calls) : calls[i][1] = name

\* train() has reached its epoch loop.
LoopStarted == pc \in {"epoch", "fit", "fitted", "decide", "debug", "after_loop", "done"}
               \/ (pc = "failed" /\ self.best_epoch >= 0)

\* train() has returned.
Completed == pc = "done"

\* The number of epochs whose early-stopping decision has been taken.
Decided == IF pc = "decide" THEN Len(accuracies) - 1 ELSE Len(accuracies)

\* The loop was left by the break of line 291.
Broke == CalledAny("break")

\* The early stopping the specification describes, after the first k values
\* of a metric history: a value strictly below the best counts as a worse
\* epoch and stops the loop once the counter has reached patience; any
\* other value is the new best and resets the counter.
RECURSIVE EarlyStopping(_, _, _)
EarlyStopping(metrics, patience, k) ==
    IF k = 0 THEN [best |-> 0, best_epoch |-> 0, worse |-> 0, stopped |-> FALSE]
    ELSE LET before == EarlyStopping(metrics, patience, k - 1) IN
         IF before.stopped THEN before
         ELSE IF metrics[k] < before.best
         THEN [before EXCEPT !.worse = @ + 1, !.stopped = (before.worse + 1 >= patience)]
         ELSE [best |-> metrics[k], best_epoch |-> k - 1, worse |-> 0, stopped |-> FALSE]

\* C1: with save_models, once train() has returned, the final-weights file
\* holds the weights the model had at the end of epoch best_epoch of this
\* train() call.
C1_FinalWeightsAreBestEpochs ==
    (Completed /\ self.save_models) =>
        /\ Exists(fs, FinalWeightFile(self.model_prefix))
        /\ fs[FinalWeightFile(self.model_prefix)] = Weights(self.best_epoch)

\* C2: an epoch whose metric is strictly below the best so far increments
\* the worse-epoch counter, and the loop stops at the first such epoch at
\* which the counter reaches patience: the best value, best_epoch, the
\* counter and whether the loop has stopped are at every point those of the
\* described early stopping on the metrics decided so far; once stopped, no
\* pre-epoch hook and no fit is called for a later epoch and none is under
\* way.  [0.5, 0.4] stops a patience of 1 at epoch 1 with best_epoch 0, and
\* [0.5, 0.4, 0.3] stops a patience of 2 at epoch 2 with best_epoch 0.
C2_EarlyStopping ==
    LoopStarted =>
        LET expected == EarlyStopping(accuracies, self.patience, Decided) IN
        /\ best_accuracy = expected.best
        /\ self.best_epoch = expected.best_epoch
        /\ num_worse_epochs = expected.worse
        /\ Broke <=> expected.stopped
        /\ Broke => /\ pc \in {"after_loop", "done", "failed"}
                    /\ Called("break", Decided - 1)
                    /\ \A i \in 1 .. Len(calls) :
                          calls[i][1] \in {"_pre_epoch_hook", "fit"} => calls[i][2] < Decided
        /\ (self.patience = 1 /\ Decided >= 2 /\ SubSeq(accuracies, 1, 2) = <<5, 4>>)
               => (Called("break", 1) /\ self.best_epoch = 0 /\ Len(accuracies) = 2)
        /\ (self.patience = 2 /\ accuracies = <<5, 4, 3>> /\ Decided = 3)
               => (Called("break", 2) /\ self.best_epoch = 0)

\* C2's case: the history [0.5, 0.4, 0.3] has stopped a patience of 2.
C2_Witness ==
    self.patience = 2 /\ accuracies = <<5, 4, 3>> /\ Broke /\ pc = "done"

\* C3: an epoch whose metric is equal to or above the best so far is an
\* improvement: its decision sets the best value to the metric and
\* best_epoch to the epoch, resets the counter and, with save_models,
\* writes the epoch's checkpoint; [0.5, 0.5] gives best_epoch = 1.
C3_TiesImprove ==
    /\ [][(pc = "decide" /\ pc' # "decide"
           /\ accuracies[Len(accuracies)] >= best_accuracy)
          => /\ best_accuracy' = accuracies[Len(accuracies)]
             /\ self'.best_epoch = epoch_id
             /\ num_worse_epochs' = 0
             /\ pc' = "debug"
             /\ self.save_models =>
                   /\ Exists(fs', ConfigFile(self.model_prefix))
                   /\ Exists(fs', EpochWeightFile(self.model_prefix, epoch_id))
                   /\ fs'[EpochWeightFile(self.model_prefix, epoch_id)] = Weights(epoch_id)]_vars
    /\ [](LoopStarted /\ accuracies = <<5, 5>> /\ Decided = 2 => self.best_epoch = 1)

\* C3's case: the tie [0.5, 0.5] was decided and checkpointed.
C3_Witness ==
    /\ accuracies = <<5, 5>> /\ pc = "debug" /\ self.best_epoch = 1
    /\ num_worse_epochs = 0 /\ self.save_models
    /\ Exists(fs, EpochWeightFile(self.model_prefix, 1))

\* train() was called.
TrainCalled == pc \notin {"start", "init_failed", "constructed"}

\* C4: train() on a Trainer without train_files ends with a
\* ConfigurationError.
C4_NoTrainFilesIsConfigurationError ==
    (TrainCalled /\ IsNone(self.train_files)) =>
        (pc = "failed" /\ error = ConfigurationError)

\* C5: a Trainer constructed with save_models true, given or by default,
\* and without model_serialization_prefix is refused by the constructor
\* with a configuration error.
C5_SaveModelsWithoutPrefixIsRefused ==
    (pc # "start" /\ Pop(params.save_models, TRUE)
     /\ IsNone(params.model_serialization_prefix)) =>
        (pc = "init_failed" /\ error = ConfigurationError)

\* C6: a parameter map with an unrecognized key makes the constructor end
\* with a ConfigurationError, whatever else the map holds.
C6_UnrecognizedKeyIsConfigurationError ==
    (pc # "start" /\ params.unrecognized # {}) =>
        (pc = "init_failed" /\ error = ConfigurationError)

\* The debug spec names a layer, for its output or its mask, that the
\* model does not have.
Unresolved ==
    /\ ~IsNone(self.debug_params)
    /\ \E name \in Range(self.debug_params[1].layer_names)
                   \cup Range(Pop(self.debug_params[1].masks, << >>)) :
          name \notin Range(hooks.layers)

\* C7: when the debug spec names a layer no layer of the model matches,
\* train() ends with a ConfigurationError, and before any fit call.
C7_UnresolvedNameIsConfigurationError ==
    (Unresolved /\ CalledAny("_build_debug_model")) =>
        (pc = "failed" /\ error = ConfigurationError /\ ~CalledAny("fit"))

\* The epochs whose fit call was made.
FittedEpochs == {calls[i][2] : i \in {j \in 1 .. Len(calls) : calls[j][1] = "fit"}}

\* The loop is through with epoch e.
EpochOver(e) == \/ e < epoch_id
                \/ pc \in {"after_loop", "done", "loaded"}
                \/ CalledAny("_save_best_model")

\* _debug was called for epoch e and, having an input to run the debug
\* model on, handed _output_debug_info its outputs.
DebugRan(e) == /\ Called("_debug", e)
               /\ Called("_output_debug_info", e) \/ IsNone(self.debug_input)

ExpectedOutputs(debug_layer_names, debug_masks) ==
    [i \in 1 .. Len(debug_layer_names) |-> LayerOutput(debug_layer_names[i])]
    \o [i \in 1 .. Len(debug_masks) |-> OutputMask(debug_masks[i])]

\* C9: when every requested name resolves, the outputs of the debug model
\* are the output of each layer of layer_names, in that order, then the
\* mask of each layer of masks, in that order.
C9_DebugModelOutputs ==
    (CalledAny("_build_debug_model") /\ ~Unresolved) =>
        /\ ~IsNone(self.debug_model)
        /\ self.debug_model[1] = ExpectedOutputs(self.debug_params[1].layer_names,
                                                 Pop(self.debug_params[1].masks, << >>))

\* C10: _debug gives each name of layer_names the debug model's output for
\* it, that one tensor, and each name of masks, in the nested mapping, the
\* debug model's mask output for it.
C10_DebugPartitionsOutputs ==
    CalledAny("_debug") =>
        LET debug_layer_names == self.debug_params[1].layer_names
            debug_masks == Pop(self.debug_params[1].masks, << >>)
            outputs == self.debug_model[1]
        IN /\ \A i \in 1 .. Len(debug_layer_names) :
                 /\ debug_layer_names[i] \in DOMAIN output_dict.layers
                 /\ output_dict.layers[debug_layer_names[i]] = PyTensor(outputs[i])
           /\ \A j \in 1 .. Len(debug_masks) :
                 /\ debug_masks[j] \in DOMAIN output_dict.masks
                 /\ output_dict.masks[debug_masks[j]]
                        = PyTensor(outputs[Len(debug_layer_names) + j])

\* The epoch-qualified weight file of epoch e was written by this train()
\* call and holds the weights the model had at the end of that epoch.
Checkpointed(e) ==
    /\ Exists(fs, EpochWeightFile(self.model_prefix, e))
    /\ fs[EpochWeightFile(self.model_prefix, e)] = Weights(e)

\* C11: with num_epochs >= 1, an epoch 0 whose metric is not negative is an
\* improvement over the 0.0 baseline: its decision leaves best_epoch at 0
\* and the counter at 0 and, with save_models, writes the epoch-0
\* checkpoint; so when train() reaches the final copy at least one epoch
\* checkpoint of this call exists.
C11_EpochZeroImproves ==
    /\ [][(pc = "decide" /\ pc' # "decide" /\ epoch_id = 0 /\ accuracies[1] >= 0)
          => /\ self'.best_epoch = 0
             /\ num_worse_epochs' = 0
             /\ best_accuracy' = accuracies[1]
             /\ pc' = "debug"
             /\ self.save_models =>
                   /\ Exists(fs', EpochWeightFile(self.model_prefix, 0))
                   /\ fs'[EpochWeightFile(self.model_prefix, 0)] = Weights(0)
                   /\ Exists(fs', ConfigFile(self.model_prefix))
                   /\ fs'[ConfigFile(self.model_prefix)].fresh]_vars
    /\ []((pc = "after_loop" /\ self.save_models /\ self.num_epochs >= 1
           /\ Len(accuracies) >= 1 /\ accuracies[1] >= 0)
          => (Called("_save_model", 0) /\ \E e \in 0 .. self.num_epochs - 1 : Checkpointed(e)))

\* C11's case: one epoch with the metric 0.0 and train() is at the final copy.
C11_Witness ==
    /\ pc = "after_loop" /\ self.save_models /\ self.num_epochs = 1
    /\ accuracies = <<0>> /\ self.best_epoch = 0 /\ num_worse_epochs = 0
    /\ Checkpointed(0)

\* load_model was called, with epoch = n, or without an epoch for n = -1.
Loading(n) == read # << >> /\ calls[Len(calls)] = Call("load_model", n, "")

\* C12: load_model(epoch=N) opens the topology file and the epoch-qualified
\* weight file of the names _save_model(N) writes, for N = 0 as for any
\* other N, and after _save_model(N) the model it loads is the model that
\* was saved; load_model() without an epoch opens the final-weights file
\* _save_best_model writes and no epoch-qualified file, and loads its weights.
C12_LoadReadsWhatSaveWrote ==
    \A n \in -1 .. MaxEpochs - 1 :
        Loading(n) =>
            /\ read[1] = ConfigFile(self.model_prefix)
            /\ Len(read) = 2 =>
                  read[2] = IF n >= 0 THEN EpochWeightFile(self.model_prefix, n)
                            ELSE FinalWeightFile(self.model_prefix)
            /\ (n >= 0 /\ Called("_save_model", n)) =>
                  /\ pc = "loaded"
                  /\ self.model = Some([layers |-> hooks.layers, weights |-> n])
            /\ (n = -1 /\ Called("_save_best_model", self.best_epoch)) =>
                  /\ pc = "loaded"
                  /\ Len(read) = 2
                  /\ self.model[1].weights = fs[FinalWeightFile(self.model_prefix)].w
                  /\ \A e \in 0 .. MaxEpochs : read[2] # EpochWeightFile(self.model_prefix, e)

\* C12's case: epoch 0 was saved, epoch 1 became the best one, and
\* load_model(epoch=0) has loaded the model of epoch 0.
C12_Witness ==
    /\ Loading(0) /\ pc = "loaded" /\ accuracies = <<3, 5>> /\ self.best_epoch = 1
    /\ Called("_save_model", 0) /\ self.model[1].weights = 0

\* train() has prepared its data.
DataPrepared == ~IsNone(self.training_dataset)

\* C13: the training tensors are prepared from the loaded training dataset
\* capped to its first max_training_instances instances, in their order (5
\* of the 10 instances for a limit of 5); a limit of at least the size of the
\* dataset leaves it as it is and raises nothing; without a limit the
\* dataset is not truncated; the validation dataset is never truncated.
C13_Truncation ==
    DataPrepared =>
        LET loaded == LoadedDataset(self.train_files[1])
            limit == self.max_training_instances
            dataset == self.training_dataset[1]
        IN /\ IsNone(limit) => (dataset = loaded /\ ~CalledAny("truncate"))
           /\ ~IsNone(limit) =>
                 /\ Len(dataset) = Min(limit[1], Len(loaded))
                 /\ \A i \in 1 .. Len(dataset) : dataset[i] = loaded[i]
                 /\ limit[1] >= Len(loaded) => dataset = loaded
                 /\ (limit[1] = 5 /\ Len(loaded) = 10) => Len(dataset) = 5
           /\ self.train_input = Some([rows |-> dataset, for_train |-> TRUE])
           /\ self.train_labels = Some([rows |-> dataset, for_train |-> TRUE])
           /\ Truthy(self.validation_files) =>
                 /\ self.validation_dataset = Some(LoadedDataset(self.validation_files[1]))
                 /\ self.validation_input
                        = Some([rows |-> LoadedDataset(self.validation_files[1]),
                                for_train |-> FALSE])

\* C13's case: a limit of 5 on 10 training instances, below the 2
\* validation instances that are all kept, with an epoch fitted on them.
C13_Witness ==
    /\ DataPrepared /\ self.max_training_instances = Some(5)
    /\ Len(LoadedDataset(self.train_files[1])) = 10
    /\ Len(self.train_input[1].rows) = 5
    /\ ~IsNone(self.validation_dataset) /\ Len(self.validation_dataset[1]) = DatasetSize
    /\ CalledAny("fit")

\* The names of the calls train() has made for epoch e, in their order.
EpochCalls == {"_pre_epoch_hook", "fit", "_post_epoch_hook", "break", "_save_model",
               "_debug", "_output_debug_info"}
CallsOfEpoch(e) ==
    LET OfEpoch(call) == call[2] = e /\ call[1] \in EpochCalls
        selected == SelectSeq(calls, OfEpoch)
    IN [i \in 1 .. Len(selected) |-> selected[i][1]]

IsPrefix(s, t) == Len(s) <= Len(t) /\ s = SubSeq(t, 1, Len(s))

\* The steps of an epoch up to its decision, and the whole of an epoch that
\* improved, of one that was worse, and of the one that stopped the loop.
StepsToDecision == <<"_pre_epoch_hook", "fit", "_post_epoch_hook">>
DebugSteps == IF ~IsNone(self.debug_params) THEN <<"_debug", "_output_debug_info">> ELSE << >>
ImprovedSteps == StepsToDecision \o (IF self.save_models THEN <<"_save_model">> ELSE << >>)
                     \o DebugSteps
WorseSteps == StepsToDecision \o DebugSteps
StoppedSteps == StepsToDecision \o <<"break">>

\* C14: the calls of every epoch are, in this order, the pre-epoch hook, one
\* fit, the post-epoch hook, then what the decision brings (with
\* save_models the checkpoint of an improvement, or the end of the loop),
\* then the debug extraction; and the decision is taken on the latest value
\* the metric has after the post-epoch hook, the value the hook gave it
\* when it gave it one.
C14_StepsOfAnEpoch ==
    /\ [](LoopStarted =>
            \A e \in 0 .. MaxEpochs :
                LET steps == CallsOfEpoch(e)
                    improved == accuracies[e + 1]
                                    >= EarlyStopping(accuracies, self.patience, e).best
                IN /\ \/ IsPrefix(steps, ImprovedSteps)
                      \/ IsPrefix(steps, WorseSteps)
                      \/ IsPrefix(steps, StoppedSteps)
                   /\ e < Decided =>
                         /\ IsPrefix(StepsToDecision, steps)
                         /\ improved => IsPrefix(steps, ImprovedSteps)
                         /\ ~improved => ~Called("_save_model", e)
                   /\ (e < epoch_id /\ pc \in {"epoch", "fit", "fitted", "decide", "debug",
                                                "after_loop", "done"}) =>
                         steps \in {ImprovedSteps, WorseSteps})
    /\ [][(pc = "fitted" /\ pc' # "fitted") =>
              /\ calls' = Append(calls, Call("_post_epoch_hook", epoch_id, ""))
              /\ calls[Len(calls)][1] = "fit"
              /\ pc' = "decide"]_vars
    /\ [][(pc = "decide" /\ pc' # "decide") =>
              LET latest == history[Len(history)] IN
              IF latest < best_accuracy
              THEN /\ num_worse_epochs' = num_worse_epochs + 1
                   /\ UNCHANGED <<best_accuracy, self>>
                   /\ (pc' = "after_loop") <=> (num_worse_epochs' >= self.patience)
              ELSE /\ best_accuracy' = latest
                   /\ self'.best_epoch = epoch_id
                   /\ num_worse_epochs' = 0]_vars

\* C14's case: fit gave epoch 1 the metric 0.5, the post-epoch hook made
\* it 0.3, below the 0.4 of epoch 0, and a patience of 1 stopped the loop.
C14_Witness ==
    /\ pc = "after_loop" /\ hooks.rewrites /\ history = <<5, 3>> /\ accuracies = <<4, 3>>
    /\ self.patience = 1 /\ self.best_epoch = 0 /\ Called("break", 1)
    /\ CallsOfEpoch(0) = ImprovedSteps /\ CallsOfEpoch(1) = StoppedSteps

\* The validation argument the fit calls are to get.
ExpectedFitArgument ==
    IF ~IsNone(self.validation_input) THEN "validation_data"
    ELSE IF self.keras_validation_split > 0 THEN "validation_split"
    ELSE "none"

\* C15: every epoch that is begun makes its fit call, and every fit call
\* gets the validation tensors when there are validation tensors, else the
\* split when keras_validation_split is positive, else neither.
C15_FitValidationArgument ==
    LoopStarted =>
        /\ \A e \in 0 .. MaxEpochs :
               (Called("_pre_epoch_hook", e) /\ pc # "fit") => Called("fit", e)
        /\ \A i \in 1 .. Len(calls) :
               calls[i][1] = "fit" => calls[i][3] = ExpectedFitArgument

\* Where in the calls of train() the calls of a name and number are.
Positions(name, number) ==
    {i \in 1 .. Len(calls) : calls[i][1] = name /\ calls[i][2] = number}
PositionsOf(name) == {i \in 1 .. Len(calls) : calls[i][1] = name}
Before(earlier, later) == \A i \in earlier, j \in later : i < j

\* C16: with pretrainers, _process_pretraining_data is called before the
\* training dataset is loaded; every pretrainer's train() is called once,
\* in the order of the configuration, after the training and validation
\* tensors are prepared and before _build_model; every on_finished is
\* called after all pretrainers have trained and before _build_model.
\* Without pretrainers none of the three is called.
C16_PretrainingOrder ==
    LET n == Len(self.pretrainers)
        trains == PositionsOf("pretrainer.train")
        finishes == PositionsOf("pretrainer.on_finished")
    IN /\ n = 0 => /\ ~CalledAny("_process_pretraining_data")
                   /\ trains = {} /\ finishes = {}
       /\ (n > 0 /\ CalledAny("_load_dataset_from_files")) =>
             /\ Cardinality(PositionsOf("_process_pretraining_data")) = 1
             /\ Before(PositionsOf("_process_pretraining_data"),
                       PositionsOf("_load_dataset_from_files"))
       /\ ~CalledAny("_build_model") => (trains = {} /\ finishes = {})
       /\ (n > 0 /\ CalledAny("_build_model")) =>
             /\ \A i \in 1 .. n :
                   /\ Cardinality(Positions("pretrainer.train", i)) = 1
                   /\ Cardinality(Positions("pretrainer.on_finished", i)) = 1
                   /\ \A k \in Positions("pretrainer.train", i) :
                         calls[k][3] = self.pretrainers[i]
             /\ Cardinality(trains) = n /\ Cardinality(finishes) = n
             /\ \A i, j \in 1 .. n :
                   i < j => Before(Positions("pretrainer.train", i),
                                   Positions("pretrainer.train", j))
             /\ Before(PositionsOf("_prepare_data"), trains)
             /\ Before(PositionsOf("_load_dataset_from_files"), trains)
             /\ Before(trains, finishes)
             /\ Before(finishes, PositionsOf("_build_model"))

\* C16's case: two pretrainers and validation files, and the model is built.
C16_Witness ==
    /\ Len(self.pretrainers) = 2 /\ CalledAny("_build_model")
    /\ Cardinality(PositionsOf("_prepare_data")) = 2
    /\ Cardinality(PositionsOf("pretrainer.on_finished")) = 2

\* train() is in its epoch loop, and has left it.
InLoop == pc \in {"epoch", "fit", "fitted", "decide", "debug"}
LoopLeft == pc \in {"after_loop", "done", "loaded", "failed"}

\* C17: the epoch loop ends; a train() call makes at most num_epochs fit
\* calls, one for an index of 0 .. num_epochs - 1 each and none when
\* num_epochs is 0; and the loop is left either with all of these indices
\* taken or by the patience counter having reached patience.
C17_LoopTerminates ==
    /\ [](LoopStarted =>
            /\ Cardinality(PositionsOf("fit")) <= self.num_epochs
            /\ \A i \in PositionsOf("fit") :
                  /\ calls[i][2] \in 0 .. self.num_epochs - 1
                  /\ Positions("fit", calls[i][2]) = {i})
    /\ [](pc \in {"after_loop", "done", "loaded"} =>
            \/ /\ ~Broke
               /\ epoch_id = self.num_epochs
               /\ Cardinality(PositionsOf("fit")) = self.num_epochs
            \/ /\ Broke
               /\ epoch_id < self.num_epochs
               /\ num_worse_epochs >= self.patience
               /\ accuracies[Len(accuracies)] < best_accuracy)
    /\ (InLoop ~> LoopLeft)

\* C17's case: a loop left with all three indices taken, the last epoch
\* being a worse one that the patience of 2 bore.
C17_Witness ==
    /\ pc = "after_loop" /\ self.num_epochs = MaxEpochs /\ ~Broke
    /\ Cardinality(PositionsOf("fit")) = MaxEpochs
    /\ self.patience = 2 /\ num_worse_epochs = 1

\* The files this train() call has written.
Written == {name \in DOMAIN fs : fs[name].fresh}

\* C18: the copy into the final-weights file is made only after the epoch
\* loop has ended, after every call of every epoch, and once in a train()
\* call that returns with save_models; without save_models train() writes
\* no topology file, no epoch-qualified weight file and no final-weights
\* file.
C18_FinalCopyAfterTheLoop ==
    /\ CalledAny("_save_best_model") =>
          /\ pc \in {"done", "loaded", "failed"}
          /\ self.save_models
          /\ \A name \in EpochCalls : Before(PositionsOf(name), PositionsOf("_save_best_model"))
          /\ epoch_id = self.num_epochs \/ Broke
    /\ (pc \in {"done", "loaded"} /\ self.save_models) =>
          /\ Cardinality(PositionsOf("_save_best_model")) = 1
          /\ Exists(fs, FinalWeightFile(self.model_prefix))
    /\ (FinalWeightFile(self.model_prefix) \in Written) => CalledAny("_save_best_model")
    /\ ~self.save_models =>
          /\ Written = {}
          /\ ~CalledAny("_save_model") /\ ~CalledAny("_save_best_model")

\* C18's case: train() has returned after an early stop, with its one copy
\* made after the break.
C18_Witness ==
    /\ pc = "done" /\ self.save_models /\ Called("break", 1)
    /\ Cardinality(PositionsOf("_save_best_model")) = 1
    /\ Before(PositionsOf("break"), PositionsOf("_save_best_model"))
    /\ FinalWeightFile(self.model_prefix) \in Written

\* C19: the debug dataset and input are the training dataset and tensors
\* for data = "training", the validation dataset and tensors for data =
\* "validation", and for any other value the dataset loaded from these
\* files and the input prepared from it with for_train = False; and for
\* every debug spec both are set when the debug extraction runs.
C19_DebugDataIsSet ==
    CalledAny("_build_debug_model") =>
        LET data == self.debug_params[1].data IN
        /\ data = "training" => /\ self.debug_dataset = self.training_dataset
                                /\ self.debug_input = self.train_input
        /\ data = "validation" => /\ self.debug_dataset = self.validation_dataset
                                  /\ self.debug_input = self.validation_input
        /\ data \notin {"training", "validation"} =>
              /\ self.debug_dataset = Some(LoadedDataset(<<data>>))
              /\ self.debug_input = Some([rows |-> LoadedDataset(<<data>>),
                                          for_train |-> FALSE])
        /\ CalledAny("_debug") => /\ ~IsNone(self.debug_dataset)
                                  /\ ~IsNone(self.debug_input)

\* C20: whenever train() reaches _save_best_model, the epoch-qualified
\* weight file of best_epoch was written by _save_model in this train()
\* call, and train() returns with it copied: the copy is never of a
\* missing file nor of one an earlier call left.
C20_BestCheckpointIsOfThisCall ==
    CalledAny("_save_best_model") =>
        /\ Called("_save_model", self.best_epoch)
        /\ Checkpointed(self.best_epoch)
        /\ pc \in {"done", "loaded"} \/ (pc = "failed" /\ read # << >>)
        /\ fs[FinalWeightFile(self.model_prefix)] = Weights(self.best_epoch)

\* train() has left its epoch loop without an exception.
LoopEnded == pc \in {"after_loop", "done", "loaded"}

\* The largest of the metrics of the executed epochs, of which there is one.
MaxMetric == CHOOSE m \in Range(accuracies) : \A other \in Range(accuracies) : other <= m

\* C21: after a train() of which an executed epoch had a metric that is not
\* negative, the best value is the largest metric of the executed epochs and
\* best_epoch is the last of the executed epochs whose metric is that value.
C21_BestEpochIsLatestMaximum ==
    (LoopEnded /\ \E i \in 1 .. Len(accuracies) : accuracies[i] >= 0) =>
        /\ best_accuracy = MaxMetric
        /\ self.best_epoch \in 0 .. Len(accuracies) - 1
        /\ accuracies[self.best_epoch + 1] = MaxMetric
        /\ \A i \in 1 .. Len(accuracies) :
              accuracies[i] = MaxMetric => i - 1 <= self.best_epoch

\* C21's case: the largest metric was reached twice, and then not again.
C21_Witness ==
    /\ pc = "done" /\ accuracies = <<5, 5, 4>> /\ self.best_epoch = 1 /\ best_accuracy = 5

\* C22: whenever train() returns, best_epoch is an epoch whose fit call this
\* train() call made and whose metric is at least the metric of every
\* earlier epoch.
C22_BestEpochWasExecuted ==
    pc = "done" =>
        /\ Called("fit", self.best_epoch)
        /\ \A i \in 1 .. self.best_epoch : accuracies[i] <= accuracies[self.best_epoch + 1]

\* The number of epochs, counted back from the last one, whose metrics are
\* all strictly below the best value.
TrailingWorse ==
    LET n == Len(accuracies)
        AllWorse(k) == \A i \in n - k + 1 .. n : accuracies[i] < best_accuracy
    IN CHOOSE k \in 0 .. n : AllWorse(k) /\ \A more \in k + 1 .. n : ~AllWorse(more)

\* An epoch of the loop is about to start, or has just called its pre-epoch hook.
EpochStarts == pc = "fit" \/ (pc = "epoch" /\ epoch_id < self.num_epochs)

\* C23: with a patience of at least 1, the best value never decreases from
\* one epoch to the next and is never below 0.0, and at the start of every
\* epoch the worse-epoch counter is at least 0, below patience, and the
\* number of epochs just before it whose metric was strictly below the
\* best value.
C23_LoopInvariants ==
    /\ [][(LoopStarted /\ LoopStarted' /\ self.patience >= 1)
              => best_accuracy' >= best_accuracy]_vars
    /\ []((LoopStarted /\ self.patience >= 1) =>
            /\ best_accuracy >= 0
            /\ \A i \in 1 .. Decided : best_accuracy >= accuracies[i])
    /\ []((EpochStarts /\ self.patience >= 1) =>
            /\ 0 <= num_worse_epochs
            /\ num_worse_epochs < self.patience
            /\ num_worse_epochs = TrailingWorse
            /\ epoch_id = Len(accuracies))

\* C23's case: the third epoch starts after a worse one a patience of 2 bore.
C23_Witness ==
    /\ pc = "fit" /\ epoch_id = 2 /\ self.patience = 2 /\ accuracies = <<5, 4>>
    /\ num_worse_epochs = 1 /\ best_accuracy = 5

\* The decided epochs whose metric was not below the best value before them.
ImprovingEpochs ==
    {e \in 0 .. Decided - 1 :
        accuracies[e + 1] >= EarlyStopping(accuracies, self.patience, e).best}

\* The epochs whose epoch-qualified weight file this train() call has written.
CheckpointedEpochs ==
    {e \in 0 .. MaxEpochs : EpochWeightFile(self.model_prefix, e) \in Written}

\* C24: with save_models, the epoch-qualified weight files one train() call
\* writes are those of the improving epochs, no more and no fewer; an epoch
\* that does not improve, the one that stops the loop included, leaves
\* best_epoch, the best value and every file as they were.
C24_CheckpointsAreTheImprovingEpochs ==
    /\ []((LoopStarted /\ self.save_models) =>
            /\ CheckpointedEpochs = ImprovingEpochs
            /\ \A e \in 0 .. MaxEpochs : Called("_save_model", e) <=> e \in ImprovingEpochs
            /\ \A e \in ImprovingEpochs : Checkpointed(e))
    /\ [][(pc = "decide" /\ pc' # "decide" /\ self.save_models
           /\ accuracies[Len(accuracies)] < best_accuracy)
          => /\ fs' = fs
             /\ best_accuracy' = best_accuracy
             /\ self'.best_epoch = self.best_epoch
             /\ pc' \in {"debug", "after_loop"}]_vars
    /\ [][(pc = "debug" /\ self.save_models) => fs' = fs]_vars

\* C24's case: of three epochs the first and the third improved, and the
\* second, which did not, has no checkpoint.
C24_Witness ==
    /\ pc = "after_loop" /\ self.save_models /\ accuracies = <<5, 4, 5>>
    /\ CheckpointedEpochs = {0, 2} /\ self.best_epoch = 2

====
